---------------------------- MODULE Spec2Model ----------------------------
(***************************************************************************)
(* Speech-to-text relay (src/server.js) and capture/upload client          *)
(* (src/public/script.js).                                                 *)
(*                                                                         *)
(* RelaySpec  : one POST /api/transcribe request after another through     *)
(*              multer (filter, disk storage, size limit), the route       *)
(*              handler, the provider call and the error middleware.       *)
(* ClientSpec : the SpeechToTextApp object and the DOM state it drives.    *)
(*                                                                         *)
(* Strings the code inspects (MIME types, file names) are sequences of     *)
(* tokens, so startsWith, endsWith and toLowerCase are computed.  A        *)
(* transcript text is the sequence of its words; "" is the empty sequence. *)
(***************************************************************************)
EXTENDS Integers, Sequences, FiniteSets, TLC

\* ------------------------------------------------------------------ bounds
\* Longest word list the provider returns (more than the 10 the relay keeps).
MaxWords == 12
\* Distinct temporary file names Date.now() + random can produce in the model.
MaxFileNames == 2
\* Submissions one client session issues.
MaxSubmissions == 2
\* MediaRecorder objects one client session creates.
MaxRecorders == 2
\* Chunks buffered in audioChunks.
MaxChunks == 1
\* getUserMedia requests of startRecording awaiting the user's answer.
MaxPendingStarts == 2

\* --------------------------------------------------------------- variables
VARIABLES
    requests,        \* relay: per request, the req/res objects and what was done for them
    disk,            \* relay: names of the files present in uploads/
    unlinks,         \* relay: fs.unlink calls issued by the handler, not yet completed
    app,             \* client: the SpeechToTextApp object's fields
    dom,             \* client: the DOM state the app drives
    recorders,       \* client: the MediaRecorder objects created so far and their state
    permission,      \* client: checkMicrophonePermission's getUserMedia request
    pendingStarts,   \* client: startRecording calls awaiting getUserMedia
    inflight,        \* client: submissions whose fetch has not settled
    submitted,       \* client: number of submissions issued so far
    loops,           \* client: the visualize() loop started with each recorder
    streams          \* client: the microphone stream granted to each start

relayVars == <<requests, disk, unlinks>>
clientVars == <<app, dom, recorders, permission, pendingStarts, inflight, submitted, loops,
                streams>>
vars == <<requests, disk, unlinks, app, dom, recorders, permission, pendingStarts, inflight,
          submitted, loops, streams>>

\* ---------------------------------------------------------- general helpers
Min(a, b) == IF a < b THEN a ELSE b

\* JavaScript optional values: undefined/null, or a value.
Absent == [present |-> FALSE]
Some(v) == [present |-> TRUE, value |-> v]

\* String.prototype.startsWith / endsWith on token strings.
StartsWith(s, p) == Len(p) <= Len(s) /\ SubSeq(s, 1, Len(p)) = p
EndsWith(s, p) == Len(p) <= Len(s) /\ SubSeq(s, Len(s) - Len(p) + 1, Len(s)) = p

\* String.prototype.toLowerCase, token by token.
LowerToken(t) ==
    CASE t = "CLIP" -> "clip"
      [] t = ".MP3" -> ".mp3"
      [] t = ".TXT" -> ".txt"
      [] OTHER -> t
ToLowerCase(s) == [i \in 1..Len(s) |-> LowerToken(s[i])]

\* Array.prototype.slice(start, end) with 0 <= start.
Slice(s, start, end) == SubSeq(s, start + 1, Min(end, Len(s)))

\* a || b for strings (texts): the empty string is falsy.
OrText(a, b) == IF a = <<>> THEN b ELSE a
\* a || b for status/log messages.
OrMessage(a, b) == IF a = "" THEN b ELSE a

\* ------------------------------------------------------------ relay: multer
Reqs == {1, 2}
\* The requests RelaySpec drives (one at a time, one after another).
RelayReqs == {1}

FileNames == 1..MaxFileNames
NoFile == 0

\* limits.fileSize
fileSize == 10 * 1024 * 1024

NoUpload == [part |-> FALSE]
Mimetypes == { <<"audio/", "wav">>, <<"video/webm", ";codecs=opus">>, <<"text/", "plain">> }
Originalnames == { <<"CLIP", ".MP3">>, <<"notes", ".txt">> }
Sizes == { 3 * 1024, fileSize, fileSize + 1, 15 * 1024 * 1024 }
\* A multipart body with one file part, or a body with none.
Uploads ==
    {NoUpload} \cup
    [part : {TRUE}, fieldname : {"audio", "file"}, mimetype : Mimetypes,
     originalname : Originalnames, size : Sizes]

allowedMimes == { <<"audio/">>, <<"video/webm">> }
allowedExtensions == { <<".wav">>, <<".mp3">>, <<".m4a">>, <<".ogg">>, <<".webm">>, <<".flac">> }

hasValidMime(file) == \E mime \in allowedMimes : StartsWith(file.mimetype, mime)
hasValidExtension(file) ==
    \E ext \in allowedExtensions : EndsWith(ToLowerCase(file.originalname), ext)

\* A filter that accepts every file.
fileFilter_AcceptsAll(file) == TRUE

\* upload's fileFilter: TRUE when cb(null, true).
fileFilter(file) == hasValidMime(file) \/ hasValidExtension(file)

\* upload.single('audio'): a file part in any other field is refused by multer
\* with MulterError LIMIT_UNEXPECTED_FILE before fileFilter is asked.
ExpectedField(file) == file.fieldname = "audio"

\* limits.fileSize: the part's stream hits the limit.
ExceedsLimit(file) == file.size > fileSize

\* Errors handed to next(err).
MulterError(code, message) == [name |-> "MulterError", code |-> code, message |-> message]
PlainError(message) == [name |-> "Error", code |-> "", message |-> message]

\* ------------------------------------------------------- relay: responses
NoResponse == [status |-> 0, body |-> [none |-> TRUE]]
Json(status, body) == [status |-> status, body |-> body]

\* The error middleware without its LIMIT_FILE_SIZE case.
ErrorMiddleware_NoSizeCase(error) ==
    Json(500, [error |-> "Internal server error",
               message |-> OrMessage(error.message, "An unexpected error occurred")])

\* Error handling middleware, app.use((error, req, res, next) => ...).
ErrorMiddleware(error) ==
    IF error.name = "MulterError" /\ error.code = "LIMIT_FILE_SIZE"
    THEN Json(400, [error |-> "File too large",
                    message |-> "Audio file must be smaller than 10MB"])
    ELSE Json(500, [error |-> "Internal server error",
                    message |-> OrMessage(error.message, "An unexpected error occurred")])

\* ----------------------------------------------------- relay: the provider
\* What deepgram.listen.prerecorded.transcribeFile gives back: { result, error }
\* with a result, { result: null, error } with an error object, or a rejection.
Text(n) == [i \in 1..n |-> i]
WordList(n) == [i \in 1..n |-> [word |-> i, start |-> i - 1, end |-> i]]
\* Number of words of a transcript text.
NumWords(text) == Len(text)

Confidences == {96}
Metadatas == { Absent, Some([duration |-> Some(3)]) }

\* The alternatives[0] objects: each of transcript, confidence and words may be
\* missing; what is present describes the same n words.
AlternativesOf(n) ==
    [transcript : {Absent, Some(Text(n))},
     confidence : {Absent} \cup {Some(c) : c \in Confidences},
     words : {Absent, Some(WordList(n))}]
Alternative0s ==
    UNION {AlternativesOf(n) : n \in 1..MaxWords} \cup
    [transcript : {Absent, Some(Text(0))}, confidence : {Absent, Some(0)},
     words : {Absent, Some(WordList(0))}]

\* result.results, cut at any level of nesting.
ResultsShapes ==
    { Absent,
      Some([channels |-> Absent]),
      Some([channels |-> Some(<<>>)]),
      Some([channels |-> Some(<<[alternatives |-> Absent]>>)]),
      Some([channels |-> Some(<<[alternatives |-> Some(<<>>)]>>)]) } \cup
    { Some([channels |-> Some(<<[alternatives |-> Some(<<a>>)]>>)]) : a \in Alternative0s }

ProviderResults == [results : ResultsShapes, metadata : Metadatas]
ErrorMessages == {"", "Invalid audio", "Rate limited"}

NoResult == [null |-> TRUE]
NoError == [null |-> TRUE]
NoOutcome == [kind |-> "none", result |-> NoResult, error |-> NoError]
ProviderOutcomes ==
    [kind : {"result"}, result : ProviderResults, error : {NoError}] \cup
    [kind : {"error"}, result : {NoResult}, error : [message : ErrorMessages]] \cup
    [kind : {"throw"}, result : {NoResult}, error : [message : {"", "socket hang up"}]]

\* ------------------------------------------------ relay: normalization
\* result.results?.channels?.[0]?.alternatives?.[0]
Channels(result) ==
    IF result.results.present THEN result.results.value.channels ELSE Absent
Channel0(result) ==
    LET c == Channels(result)
    IN  IF c.present /\ Len(c.value) > 0 THEN Some(c.value[1]) ELSE Absent
Alternatives(result) ==
    LET c == Channel0(result)
    IN  IF c.present THEN c.value.alternatives ELSE Absent
Alternative0(result) ==
    LET a == Alternatives(result)
    IN  IF a.present /\ Len(a.value) > 0 THEN Some(a.value[1]) ELSE Absent

\* const transcript = ...?.transcript || ''
transcript(result) ==
    LET a == Alternative0(result)
    IN  IF a.present /\ a.value.transcript.present
        THEN OrText(a.value.transcript.value, <<>>) ELSE <<>>
\* const confidence = ...?.confidence || 0
confidence(result) ==
    LET a == Alternative0(result)
    IN  IF a.present /\ a.value.confidence.present THEN a.value.confidence.value ELSE 0
\* const words = ...?.words || []
words(result) ==
    LET a == Alternative0(result)
    IN  IF a.present /\ a.value.words.present THEN a.value.words.value ELSE <<>>
\* result.metadata?.duration || 0
duration(result) ==
    IF result.metadata.present /\ result.metadata.value.duration.present
    THEN result.metadata.value.duration.value ELSE 0

\* The whole word list, not a slice of it.
ResponseWords_All(ws) == ws

\* words.slice(0, 10)
MaxWordsReturned == 10
ResponseWords(ws) == Slice(ws, 0, MaxWordsReturned)

\* res.json({ success: true, ... })
SuccessBody(result) ==
    [success |-> TRUE,
     transcript |-> transcript(result),
     confidence |-> confidence(result),
     word_count |-> Len(words(result)),
     duration |-> duration(result),
     words |-> ResponseWords(words(result)),
     metadata |-> [model |-> "nova-2", language |-> "en-US"]]

\* ------------------------------------------------- relay: request state
NoRequest ==
    [phase |-> "none", upload |-> NoUpload,
     file |-> FALSE,              \* req.file is set
     path |-> NoFile,             \* the temporary file multer's storage opened
     outcome |-> NoOutcome,       \* what the provider call gave
     resp |-> NoResponse,
     handlerReached |-> FALSE,    \* the route handler's body ran
     fileRead |-> FALSE,          \* fs.readFileSync returned
     providerCalled |-> FALSE,    \* transcribeFile was invoked
     normalized |-> FALSE,        \* transcript/confidence/words were extracted
     unlinkIssued |-> FALSE,      \* the handler called fs.unlink
     removed |-> FALSE]           \* multer removed the file of an aborted upload

\* The handler reading result.results.channels[0].alternatives[0] without
\* optional chaining: a missing level throws into the catch block.
HandlerContinuation_NoChaining(outcome, exists) ==
    CASE outcome.kind = "result" /\ Alternative0(outcome.result).present ->
            [resp |-> Json(200, SuccessBody(outcome.result)),
             unlink |-> TRUE, normalized |-> TRUE]
      [] outcome.kind = "error" ->
            [resp |-> Json(500, [error |-> "Transcription failed",
                                 message |-> OrMessage(outcome.error.message,
                                                       "Unknown error occurred")]),
             unlink |-> FALSE, normalized |-> FALSE]
      [] OTHER ->
            [resp |-> Json(500, [error |-> "Internal server error",
                                 message |-> "Cannot read properties of undefined"]),
             unlink |-> exists, normalized |-> outcome.kind = "result"]

\* The handler without its `if (error)` branch: it goes on to read the null
\* result, which throws into the catch block.
HandlerContinuation_NoErrorBranch(outcome, exists) ==
    CASE outcome.kind = "result" ->
            [resp |-> Json(200, SuccessBody(outcome.result)),
             unlink |-> TRUE, normalized |-> TRUE]
      [] outcome.kind = "error" ->
            [resp |-> Json(500, [error |-> "Internal server error",
                                 message |-> "Cannot read properties of null"]),
             unlink |-> exists, normalized |-> TRUE]
      [] OTHER ->
            [resp |-> Json(500, [error |-> "Internal server error",
                                 message |-> OrMessage(outcome.error.message,
                                                       "An unexpected error occurred")]),
             unlink |-> exists, normalized |-> FALSE]

\* The route handler after `await transcribeFile(...)`: the error branch, the
\* success path, or the catch block.  exists is fs.existsSync(req.file.path).
\* Gives the response, whether fs.unlink was called, and whether the result was
\* normalized.
HandlerContinuation(outcome, exists) ==
    CASE outcome.kind = "throw" ->
            [resp |-> Json(500, [error |-> "Internal server error",
                                 message |-> OrMessage(outcome.error.message,
                                                       "An unexpected error occurred")]),
             unlink |-> exists, normalized |-> FALSE]
      [] outcome.kind = "error" ->
            [resp |-> Json(500, [error |-> "Transcription failed",
                                 message |-> OrMessage(outcome.error.message,
                                                       "Unknown error occurred")]),
             unlink |-> FALSE, normalized |-> FALSE]
      [] OTHER ->
            [resp |-> Json(200, SuccessBody(outcome.result)),
             unlink |-> TRUE, normalized |-> TRUE]

RelayInit ==
    /\ requests = [r \in Reqs |-> NoRequest]
    /\ disk = {}
    /\ unlinks = {}

\* ------------------------------------------------------- client: state
Null == 0
RecorderIds == 1..MaxRecorders
SubmissionIds == 1..MaxSubmissions

\* What the page shows before any script action: recording possible, the
\* result panel with its placeholder, the metadata section hidden, the copy,
\* download and clear buttons disabled, no preview, no indicator, no status.
InitialDom ==
    [recordBtnDisabled |-> FALSE, stopBtnDisabled |-> TRUE,
     transcriptionResult |-> "placeholder",
     transcriptionMeta |-> "none",
     copyBtnDisabled |-> TRUE, downloadBtnDisabled |-> TRUE, clearBtnDisabled |-> TRUE,
     audioPreview |-> "none", processingIndicator |-> "none",
     status |-> ""]

\* constructor(): currentTranscription is not assigned, so it starts undefined.
ClientInit ==
    /\ app = [mediaRecorder |-> Null, audioChunks |-> <<>>, isRecording |-> FALSE,
              audioContext |-> Null,
              currentTranscription |-> [kind |-> "undefined"]]
    /\ dom = InitialDom
    /\ recorders = [id \in RecorderIds |-> "none"]
    /\ permission = "pending"
    /\ pendingStarts = 0
    /\ inflight = {}
    /\ submitted = 0
    /\ loops = [id \in RecorderIds |-> "none"]
    /\ streams = [id \in RecorderIds |-> "none"]

Init == RelayInit /\ ClientInit

\* A POST /api/transcribe request arrives.
Receive(r) ==
    /\ requests[r].phase = "none"
    /\ \E u \in Uploads :
         requests' = [requests EXCEPT ![r] = [NoRequest EXCEPT !.phase = "multer", !.upload = u]]
    /\ UNCHANGED <<disk, unlinks>>
    /\ UNCHANGED clientVars

\* upload.single('audio') meets the body: no file part, a part in an unexpected
\* field, a part fileFilter refuses, or a part the disk storage starts writing
\* under a generated name.
MulterFile(r) ==
    /\ requests[r].phase = "multer"
    /\ LET u == requests[r].upload IN
         \/ /\ ~u.part
            /\ requests' = [requests EXCEPT ![r].phase = "handler"]
            /\ UNCHANGED disk
         \/ /\ u.part /\ ~ExpectedField(u)
            /\ requests' = [requests EXCEPT
                 ![r].phase = "done",
                 ![r].resp = ErrorMiddleware(MulterError("LIMIT_UNEXPECTED_FILE", "Unexpected field"))]
            /\ UNCHANGED disk
         \/ /\ u.part /\ ExpectedField(u) /\ ~fileFilter(u)
            /\ requests' = [requests EXCEPT
                 ![r].phase = "done",
                 ![r].resp = ErrorMiddleware(PlainError("Only audio files are allowed!"))]
            /\ UNCHANGED disk
         \/ /\ u.part /\ ExpectedField(u) /\ fileFilter(u)
            /\ \E name \in FileNames :
                 /\ requests' = [requests EXCEPT ![r].phase = "writing", ![r].path = name]
                 /\ disk' = disk \cup {name}
    /\ UNCHANGED unlinks
    /\ UNCHANGED clientVars

\* The part's bytes have been streamed to the file: either all of them fit, and
\* req.file is set, or the stream hit limits.fileSize and the upload is aborted.
MulterWrite(r) ==
    /\ requests[r].phase = "writing"
    /\ \/ /\ ~ExceedsLimit(requests[r].upload)
          /\ requests' = [requests EXCEPT ![r].phase = "handler", ![r].file = TRUE]
       \/ /\ ExceedsLimit(requests[r].upload)
          /\ requests' = [requests EXCEPT ![r].phase = "aborting"]
    /\ UNCHANGED <<disk, unlinks>>
    /\ UNCHANGED clientVars

\* multer removes the file of the aborted upload, then calls next(err) with
\* MulterError LIMIT_FILE_SIZE, which the error middleware answers.
MulterAbort(r) ==
    /\ requests[r].phase = "aborting"
    /\ disk' = disk \ {requests[r].path}
    /\ requests' = [requests EXCEPT
         ![r].phase = "done",
         ![r].removed = TRUE,
         ![r].resp = ErrorMiddleware(MulterError("LIMIT_FILE_SIZE", "File too large"))]
    /\ UNCHANGED unlinks
    /\ UNCHANGED clientVars

\* The route handler up to its await: the missing-file answer, or the read of the
\* file (which throws when the file is gone) and the provider call.
HandlerStart(r) ==
    /\ requests[r].phase = "handler"
    /\ \/ /\ ~requests[r].file
          /\ requests' = [requests EXCEPT
               ![r].phase = "done",
               ![r].handlerReached = TRUE,
               ![r].resp = Json(400, [error |-> "No audio file provided",
                                      message |-> "Please upload an audio file"])]
       \/ /\ requests[r].file /\ requests[r].path \in disk
          /\ requests' = [requests EXCEPT
               ![r].phase = "awaiting",
               ![r].handlerReached = TRUE,
               ![r].fileRead = TRUE,
               ![r].providerCalled = TRUE]
       \/ /\ requests[r].file /\ requests[r].path \notin disk
          /\ requests' = [requests EXCEPT
               ![r].phase = "done",
               ![r].handlerReached = TRUE,
               ![r].resp = HandlerContinuation(
                    [kind |-> "throw", result |-> NoResult,
                     error |-> [message |-> "ENOENT: no such file or directory"]],
                    FALSE).resp]
    /\ UNCHANGED <<disk, unlinks>>
    /\ UNCHANGED clientVars

\* The provider call settles and the handler runs to its response.
ProviderSettles(r) ==
    /\ requests[r].phase = "awaiting"
    /\ \E o \in ProviderOutcomes :
         LET c == HandlerContinuation(o, requests[r].path \in disk) IN
           /\ requests' = [requests EXCEPT
                ![r].phase = "done",
                ![r].outcome = o,
                ![r].resp = c.resp,
                ![r].normalized = c.normalized,
                ![r].unlinkIssued = c.unlink]
           /\ unlinks' = IF c.unlink THEN unlinks \cup {requests[r].path} ELSE unlinks
    /\ UNCHANGED disk
    /\ UNCHANGED clientVars

\* The response has been sent: the request, with its req and res objects, is over.
Finish(r) ==
    /\ requests[r].phase = "done"
    /\ requests' = [requests EXCEPT ![r] = NoRequest]
    /\ UNCHANGED <<disk, unlinks>>
    /\ UNCHANGED clientVars

\* An fs.unlink issued by the handler completes: the file is deleted, or the
\* deletion fails and the callback logs the error.
UnlinkCompletes(name) ==
    /\ name \in unlinks
    /\ unlinks' = unlinks \ {name}
    /\ \/ disk' = disk \ {name}
       \/ disk' = disk
    /\ UNCHANGED requests
    /\ UNCHANGED clientVars

RelayNext ==
    \/ \E r \in RelayReqs :
         \/ Receive(r)
         \/ MulterFile(r)
         \/ MulterWrite(r)
         \/ MulterAbort(r)
         \/ HandlerStart(r)
         \/ ProviderSettles(r)
         \/ Finish(r)
    \/ \E name \in FileNames : UnlinkCompletes(name)

RelaySpec == Init /\ [][RelayNext]_vars

\* Two requests handled by the relay at the same time.  The bodies are audio
\* uploads in the 'audio' field, within or over the size limit, and the
\* provider gives an empty result, an error object or a rejection.
ConcurrentUploads ==
    {u \in Uploads :
        /\ u.part
        /\ u.fieldname = "audio"
        /\ u.mimetype = <<"audio/", "wav">>
        /\ u.originalname = <<"CLIP", ".MP3">>
        /\ u.size \in {3 * 1024, fileSize + 1}}
ConcurrentOutcomes ==
    {o \in ProviderOutcomes :
        \/ o.kind = "result" /\ o.result = [results |-> Absent, metadata |-> Absent]
        \/ o.kind = "error" /\ o.error.message = "Invalid audio"
        \/ o.kind = "throw" /\ o.error.message = "socket hang up"}

ReceiveConcurrent(r) == Receive(r) /\ requests'[r].upload \in ConcurrentUploads
SettlesConcurrent(r) == ProviderSettles(r) /\ requests'[r].outcome \in ConcurrentOutcomes

ConcurrentNext ==
    \/ \E r \in Reqs :
         \/ ReceiveConcurrent(r)
         \/ MulterFile(r)
         \/ MulterWrite(r)
         \/ MulterAbort(r)
         \/ HandlerStart(r)
         \/ SettlesConcurrent(r)
         \/ Finish(r)
    \/ \E name \in FileNames : UnlinkCompletes(name)

ConcurrentSpec == Init /\ [][ConcurrentNext]_vars

\* ----------------------------------------------------- client: operations
\* showStatus(message): the message appended to the status area.
showStatus(d, message) == [d EXCEPT !.status = message]

\* showProcessing(show)
showProcessing(d, show) == [d EXCEPT !.processingIndicator = IF show THEN "block" ELSE "none"]

\* updateRecordingUI(recording)
updateRecordingUI(d, recording) ==
    [d EXCEPT !.recordBtnDisabled = recording, !.stopBtnDisabled = ~recording]

\* A displayTranscription that leaves the clear button as it was.
displayTranscription_NoClearBtn(d) ==
    [d EXCEPT !.transcriptionResult = "content",
              !.transcriptionMeta = "block",
              !.copyBtnDisabled = FALSE,
              !.downloadBtnDisabled = FALSE]

\* displayTranscription(result): the DOM part.
displayTranscription(d) ==
    [d EXCEPT !.transcriptionResult = "content",
              !.transcriptionMeta = "block",
              !.copyBtnDisabled = FALSE,
              !.downloadBtnDisabled = FALSE,
              !.clearBtnDisabled = FALSE]

\* checkMicrophonePermission(): the page-load getUserMedia request is granted.
PermissionGranted ==
    /\ permission = "pending"
    /\ permission' = "granted"
    /\ dom' = showStatus(dom, "Microphone access granted")
    /\ UNCHANGED <<app, recorders, pendingStarts, inflight, submitted, loops, streams>>
    /\ UNCHANGED relayVars

\* checkMicrophonePermission(): the request is denied.
PermissionDenied ==
    /\ permission = "pending"
    /\ permission' = "denied"
    /\ dom' = [showStatus(dom, "Microphone access denied. File upload is still available.")
                  EXCEPT !.recordBtnDisabled = TRUE]
    /\ UNCHANGED <<app, recorders, pendingStarts, inflight, submitted, loops, streams>>
    /\ UNCHANGED relayVars

\* startRecording() up to its await: a click on the enabled record button asks
\* for the microphone.
startRecording ==
    /\ ~dom.recordBtnDisabled
    /\ pendingStarts < MaxPendingStarts
    /\ pendingStarts' = pendingStarts + 1
    /\ UNCHANGED <<app, dom, recorders, permission, inflight, submitted, loops, streams>>
    /\ UNCHANGED relayVars

\* startRecording() after the grant: the stream is live; a new MediaRecorder
\* on it replaces the handle, the chunk buffer is reset and the recorder
\* starts, with onstop closing over the stream; startAudioVisualization()
\* opens an audio context and runs visualize() once, which samples and asks for
\* the next animation frame.
StartGranted ==
    /\ pendingStarts > 0
    /\ \E id \in RecorderIds :
         /\ recorders[id] = "none"
         /\ \A other \in RecorderIds : other < id => recorders[other] # "none"
         /\ recorders' = [recorders EXCEPT ![id] = "recording"]
         /\ app' = [app EXCEPT !.mediaRecorder = id, !.audioChunks = <<>>, !.isRecording = TRUE,
                                !.audioContext = id]
         /\ loops' = [loops EXCEPT ![id] = "scheduled"]
         /\ streams' = [streams EXCEPT ![id] = "live"]
    /\ pendingStarts' = pendingStarts - 1
    /\ dom' = showStatus(updateRecordingUI(dom, TRUE), "Recording started")
    /\ UNCHANGED <<permission, inflight, submitted>>
    /\ UNCHANGED relayVars

\* startRecording() after the grant, in a browser where new MediaRecorder
\* throws NotSupportedError for 'audio/webm;codecs=opus': the stream is live,
\* no recorder exists for it, and the catch block reports the failure.
StartUnsupported ==
    /\ pendingStarts > 0
    /\ \E id \in RecorderIds :
         /\ recorders[id] = "none"
         /\ \A other \in RecorderIds : other < id => recorders[other] # "none"
         /\ recorders' = [recorders EXCEPT ![id] = "failed"]
         /\ streams' = [streams EXCEPT ![id] = "live"]
    /\ pendingStarts' = pendingStarts - 1
    /\ dom' = showStatus(dom, "Failed to start recording")
    /\ UNCHANGED <<app, permission, inflight, submitted, loops>>
    /\ UNCHANGED relayVars

\* startRecording() when getUserMedia rejects: the catch block reports it.
StartDenied ==
    /\ pendingStarts > 0
    /\ pendingStarts' = pendingStarts - 1
    /\ dom' = showStatus(dom, "Failed to start recording")
    /\ UNCHANGED <<app, recorders, permission, inflight, submitted, loops, streams>>
    /\ UNCHANGED relayVars

\* mediaRecorder.ondataavailable of recorder id: a non-empty chunk is pushed onto
\* this.audioChunks, an empty one is dropped.
ondataavailable(id) ==
    /\ recorders[id] \in {"recording", "stopping"}
    /\ \E size \in {0, 1} :
         app' = IF size > 0
                THEN [app EXCEPT !.audioChunks = Append(app.audioChunks, id)]
                ELSE app
    /\ Len(app.audioChunks) < MaxChunks
    /\ UNCHANGED <<dom, recorders, permission, pendingStarts, inflight, submitted, loops, streams>>
    /\ UNCHANGED relayVars

\* The recorder stops without stop() being called: its stream's tracks ended
\* (the microphone went away) or it met an error.  It becomes inactive and its
\* dataavailable and stop events are queued; no code of the page runs yet.
RecorderEnds(id) ==
    /\ recorders[id] = "recording"
    /\ recorders' = [recorders EXCEPT ![id] = "stopping"]
    /\ UNCHANGED <<app, dom, permission, pendingStarts, inflight, submitted, loops, streams>>
    /\ UNCHANGED relayVars

\* stopRecording(): a click on the enabled stop button.  stop() on a recorder
\* that already ended either does nothing or throws InvalidStateError, by the
\* browser; when it throws the rest of the handler is skipped.
\* stopAudioVisualization() closes the audio context.
stopRecording ==
    /\ ~dom.stopBtnDisabled
    /\ IF app.mediaRecorder # Null /\ app.isRecording
       THEN \/ /\ recorders' = [recorders EXCEPT ![app.mediaRecorder] =
                                   IF @ = "recording" THEN "stopping" ELSE @]
               /\ app' = [app EXCEPT !.isRecording = FALSE, !.audioContext = Null]
               /\ dom' = showStatus(dom, "Recording stopped")
            \/ /\ recorders[app.mediaRecorder] # "recording"
               /\ UNCHANGED <<app, dom, recorders>>
       ELSE UNCHANGED <<app, dom, recorders>>
    /\ UNCHANGED <<permission, pendingStarts, inflight, submitted, loops, streams>>
    /\ UNCHANGED relayVars

\* visualize(), the animation-frame callback of the loop started with recorder
\* id: it returns when this.isRecording is false, and otherwise samples the
\* analyser, sets the bar heights and asks for the next frame.
visualize(id) ==
    /\ loops[id] = "scheduled"
    /\ loops' = [loops EXCEPT ![id] = IF ~app.isRecording THEN "ended" ELSE "scheduled"]
    /\ UNCHANGED <<app, dom, recorders, permission, pendingStarts, inflight, submitted, streams>>
    /\ UNCHANGED relayVars

\* The audio of a submission: a picked or dropped file of some declared type,
\* or the blob that onstop builds from the chunk buffer.
File(type) == [type |-> type, parts |-> <<>>]
Blob(parts, type) == [type |-> type, parts |-> parts]

\* transcribeAudio(audioData) up to its await: the indicator is shown and the
\* request is sent.  d is the DOM at the call; caller is the callback that made
\* the call, and onstop goes on to updateRecordingUI(false) once it returns.
transcribeAudio(d, caller, audioData) ==
    /\ submitted < MaxSubmissions
    /\ submitted' = submitted + 1
    /\ inflight' = inflight \cup {[id |-> submitted + 1, caller |-> caller, audio |-> audioData]}
    /\ dom' = IF caller = "onstop"
              THEN updateRecordingUI(showProcessing(d, TRUE), FALSE)
              ELSE showProcessing(d, TRUE)

\* An onstop that submits only when chunks were buffered.
onstop_SkipsEmptyBlob(id) ==
    /\ recorders[id] = "stopping"
    /\ recorders' = [recorders EXCEPT ![id] = "inactive"]
    /\ IF app.audioChunks # <<>>
       THEN transcribeAudio([dom EXCEPT !.audioPreview = "block"], "onstop",
                            Blob(app.audioChunks, <<"audio/", "webm">>))
       ELSE /\ dom' = updateRecordingUI(dom, FALSE)
            /\ UNCHANGED <<inflight, submitted>>
    /\ streams' = [streams EXCEPT ![id] = "stopped"]
    /\ UNCHANGED <<app, permission, pendingStarts, loops>>
    /\ UNCHANGED relayVars

\* mediaRecorder.onstop of recorder id: the blob is built and submitted
\* (processAudioBlob shows the preview), then the recording UI is reset and
\* the tracks of the stream this recorder was built on are stopped.
onstop(id) ==
    /\ recorders[id] = "stopping"
    /\ recorders' = [recorders EXCEPT ![id] = "inactive"]
    /\ transcribeAudio([dom EXCEPT !.audioPreview = "block"], "onstop",
                       Blob(app.audioChunks, <<"audio/", "webm">>))
    /\ streams' = [streams EXCEPT ![id] = "stopped"]
    /\ UNCHANGED <<app, permission, pendingStarts, loops>>
    /\ UNCHANGED relayVars

FileTypes == { <<"audio/", "mpeg">>, <<"text/", "plain">>, <<>> }

\* handleFileSelect(event): the picker's first file, whatever its type, is
\* submitted; an empty selection does nothing.
handleFileSelect ==
    /\ \E files \in {<<>>} \cup {<<t>> : t \in FileTypes} :
         IF Len(files) > 0
         THEN transcribeAudio(dom, "handleFileSelect", File(files[1]))
         ELSE UNCHANGED <<dom, inflight, submitted>>
    /\ UNCHANGED <<app, recorders, permission, pendingStarts, loops, streams>>
    /\ UNCHANGED relayVars

\* handleFileDrop(event): the first dropped file is submitted when its type
\* starts with 'audio/', and reported otherwise.
handleFileDrop ==
    /\ \E files \in {<<>>} \cup {<<t>> : t \in FileTypes} :
         IF Len(files) > 0
         THEN IF StartsWith(files[1], <<"audio/">>)
              THEN transcribeAudio(dom, "handleFileDrop", File(files[1]))
              ELSE /\ dom' = showStatus(dom, "Please upload an audio file")
                   /\ UNCHANGED <<inflight, submitted>>
         ELSE UNCHANGED <<dom, inflight, submitted>>
    /\ UNCHANGED <<app, recorders, permission, pendingStarts, loops, streams>>
    /\ UNCHANGED relayVars

\* The submissions whose response has not arrived.
InFlightIds == {s.id : s \in inflight}

\* A success path that displays the result without storing it.
SubmissionSucceeds_NoStore(id) ==
    /\ id \in InFlightIds
    /\ inflight' = {s \in inflight : s.id # id}
    /\ dom' = showProcessing(
                 showStatus(displayTranscription(dom), "Transcription completed successfully!"),
                 FALSE)
    /\ UNCHANGED <<app, recorders, permission, pendingStarts, submitted, loops, streams>>
    /\ UNCHANGED relayVars

\* transcribeAudio after its awaits, result.success true: the result is shown
\* and stored, then the indicator is hidden.
SubmissionSucceeds(id) ==
    /\ id \in InFlightIds
    /\ inflight' = {s \in inflight : s.id # id}
    /\ app' = [app EXCEPT !.currentTranscription = [kind |-> "result", id |-> id]]
    /\ dom' = showProcessing(
                 showStatus(displayTranscription(dom), "Transcription completed successfully!"),
                 FALSE)
    /\ UNCHANGED <<recorders, permission, pendingStarts, submitted, loops, streams>>
    /\ UNCHANGED relayVars

\* A failure path that sends the request again.
SubmissionFails_Retries(id) ==
    /\ id \in InFlightIds
    /\ \E s \in inflight :
         /\ s.id = id
         /\ IF submitted < MaxSubmissions
            THEN /\ submitted' = submitted + 1
                 /\ inflight' = (inflight \ {s}) \cup {[s EXCEPT !.id = submitted + 1]}
            ELSE /\ inflight' = inflight \ {s}
                 /\ UNCHANGED submitted
    /\ dom' = showProcessing(showStatus(dom, "Transcription failed"), FALSE)
    /\ UNCHANGED <<app, recorders, permission, pendingStarts, loops, streams>>
    /\ UNCHANGED relayVars

\* A failure path that also resets the result area.
SubmissionFails_ResetsResults(id) ==
    /\ id \in InFlightIds
    /\ inflight' = {s \in inflight : s.id # id}
    /\ dom' = showProcessing(
                 showStatus([dom EXCEPT !.transcriptionResult = "placeholder",
                                        !.transcriptionMeta = "none",
                                        !.copyBtnDisabled = TRUE,
                                        !.downloadBtnDisabled = TRUE,
                                        !.clearBtnDisabled = TRUE],
                            "Transcription failed"),
                 FALSE)
    /\ app' = [app EXCEPT !.currentTranscription = [kind |-> "null"]]
    /\ UNCHANGED <<recorders, permission, pendingStarts, submitted, loops, streams>>
    /\ UNCHANGED relayVars

\* transcribeAudio after its awaits, the fetch or the JSON parse failed or
\* result.success is not true: the error is reported, then the indicator is
\* hidden.
SubmissionFails(id) ==
    /\ id \in InFlightIds
    /\ inflight' = {s \in inflight : s.id # id}
    /\ dom' = showProcessing(showStatus(dom, "Transcription failed"), FALSE)
    /\ UNCHANGED <<app, recorders, permission, pendingStarts, submitted, loops, streams>>
    /\ UNCHANGED relayVars

\* clearTranscription() that forgets to drop the stored result.
clearTranscription_KeepsResult ==
    /\ ~dom.clearBtnDisabled
    /\ dom' = showStatus(
                 [dom EXCEPT !.transcriptionResult = "placeholder",
                             !.transcriptionMeta = "none",
                             !.copyBtnDisabled = TRUE,
                             !.downloadBtnDisabled = TRUE,
                             !.clearBtnDisabled = TRUE,
                             !.audioPreview = "none"],
                 "Transcription cleared")
    /\ UNCHANGED app
    /\ UNCHANGED <<recorders, permission, pendingStarts, inflight, submitted, loops, streams>>
    /\ UNCHANGED relayVars

\* clearTranscription(): a click on the enabled clear button.
clearTranscription ==
    /\ ~dom.clearBtnDisabled
    /\ dom' = showStatus(
                 [dom EXCEPT !.transcriptionResult = "placeholder",
                             !.transcriptionMeta = "none",
                             !.copyBtnDisabled = TRUE,
                             !.downloadBtnDisabled = TRUE,
                             !.clearBtnDisabled = TRUE,
                             !.audioPreview = "none"],
                 "Transcription cleared")
    /\ app' = [app EXCEPT !.currentTranscription = [kind |-> "null"]]
    /\ UNCHANGED <<recorders, permission, pendingStarts, inflight, submitted, loops, streams>>
    /\ UNCHANGED relayVars

ClientNext ==
    \/ PermissionGranted
    \/ PermissionDenied
    \/ startRecording
    \/ StartGranted
    \/ StartUnsupported
    \/ StartDenied
    \/ \E id \in RecorderIds : ondataavailable(id)
    \/ \E id \in RecorderIds : RecorderEnds(id)
    \/ stopRecording
    \/ \E id \in RecorderIds : visualize(id)
    \/ \E id \in RecorderIds : onstop(id)
    \/ handleFileSelect
    \/ handleFileDrop
    \/ \E id \in SubmissionIds : SubmissionSucceeds(id)
    \/ \E id \in SubmissionIds : SubmissionFails(id)
    \/ clearTranscription

ClientSpec == Init /\ [][ClientNext]_vars

\* The capture side of the client alone: microphone permission, recording,
\* visualization, and the submission that onstop issues.
CaptureNext ==
    \/ PermissionGranted
    \/ PermissionDenied
    \/ startRecording
    \/ StartGranted
    \/ StartUnsupported
    \/ StartDenied
    \/ \E id \in RecorderIds : ondataavailable(id)
    \/ \E id \in RecorderIds : RecorderEnds(id)
    \/ stopRecording
    \/ \E id \in RecorderIds : visualize(id)
    \/ \E id \in RecorderIds : onstop(id)

CaptureSpec == Init /\ [][CaptureNext]_vars

\* The upload side of the client alone: files picked or dropped, the responses
\* to their submissions, and clearing.
UploadNext ==
    \/ handleFileSelect
    \/ handleFileDrop
    \/ \E id \in SubmissionIds : SubmissionSucceeds(id)
    \/ \E id \in SubmissionIds : SubmissionFails(id)
    \/ clearTranscription

UploadSpec == Init /\ [][UploadNext]_vars

\* The path of a request through both tiers, one side at a time: the capture
\* side while nothing was uploaded, the upload side while nothing was captured,
\* and the relay while the page is as loaded.
RelayQuiet == RelayInit
CaptureQuiet ==
    /\ permission = "pending"
    /\ pendingStarts = 0
    /\ \A id \in RecorderIds : recorders[id] = "none"
UploadQuiet ==
    /\ \A s \in inflight : s.caller = "onstop"
    /\ submitted = Cardinality(inflight)

RequestPathNext ==
    \/ RelayQuiet /\ UploadQuiet /\ CaptureNext
    \/ RelayQuiet /\ CaptureQuiet /\ UploadNext
    \/ ClientInit /\ RelayNext

RequestPathSpec == Init /\ [][RequestPathNext]_vars

\* ================================================================ claims
\* --------------------------------------------------------- relay, C1..C9
Done(r) == requests[r].phase = "done"
Active(r) == requests[r].phase # "none"
Status(r) == requests[r].resp.status
Body(r) == requests[r].resp.body

\* C1 (as claimed): once the relay has answered a request whose upload was
\* accepted and handed to the provider, the temporary file is gone or its
\* deletion has been issued, whatever the provider did (result, error object,
\* throw).
C1_TempFileDeletedAfterResponse ==
    \A r \in Reqs :
        (Done(r) /\ requests[r].providerCalled)
            => (requests[r].unlinkIssued \/ requests[r].path \notin disk)

\* An upload multer's validation rejects: refused by the type filter, or larger
\* than the size limit.
RejectedByFilter(u) == u.part /\ ~hasValidMime(u) /\ ~hasValidExtension(u)
RejectedBySize(u) == u.part /\ u.size > 10 * 1024 * 1024

\* C2 (as claimed): for an upload rejected by the type filter or by the size
\* limit, at no point of the request is there a temporary file, and the provider
\* is never invoked.
C2_RejectedNeverOnDisk ==
    \A r \in Reqs :
        (Active(r) /\ (RejectedByFilter(requests[r].upload) \/ RejectedBySize(requests[r].upload)))
            => /\ (requests[r].path = NoFile \/ requests[r].path \notin disk)
               /\ ~requests[r].providerCalled

\* C2 (amended): an upload rejected by the type filter never gets a temporary
\* file; an upload rejected by the size limit may have a partial temporary file
\* while its body is received, and that file has been removed by the time the
\* response is sent; the provider is invoked in neither case.
C2_RejectedRemovedBeforeResponse ==
    \A r \in Reqs :
        /\ (Active(r) /\ RejectedByFilter(requests[r].upload))
              => (requests[r].path = NoFile /\ ~requests[r].providerCalled)
        /\ (Active(r) /\ RejectedBySize(requests[r].upload))
              => /\ ~requests[r].providerCalled
                 /\ Done(r) => (requests[r].path = NoFile \/ requests[r].path \notin disk)

\* C2 witness: an oversized upload that passed the filter was written to disk,
\* removed again, and answered.
C2_Witness ==
    \E r \in Reqs :
        /\ Done(r) /\ RejectedBySize(requests[r].upload)
        /\ requests[r].path # NoFile /\ requests[r].removed
        /\ requests[r].path \notin disk

\* C3 (as claimed): an upload with neither an allowed MIME prefix nor an allowed
\* extension is answered with status 400, before any provider call.
C3_BadTypeAnswered400 ==
    \A r \in Reqs :
        (Done(r) /\ RejectedByFilter(requests[r].upload))
            => (Status(r) = 400 /\ ~requests[r].providerCalled)

\* C4 (as claimed): an upload larger than 10 MiB is answered 400 with error
\* "File too large", and neither the handler body nor the provider is reached.
C4_OversizedAnswered400 ==
    \A r \in Reqs :
        (Done(r) /\ RejectedBySize(requests[r].upload))
            => /\ Status(r) = 400
               /\ Body(r).error = "File too large"
               /\ ~requests[r].handlerReached
               /\ ~requests[r].providerCalled

\* C4 (amended): an upload in the 'audio' field that passes the type filter and
\* is larger than 10 MiB is answered 400 with error "File too large"; for every
\* upload larger than 10 MiB neither the handler body nor the provider is
\* reached.
C4_AcceptedTypeOversizedAnswered400 ==
    \A r \in Reqs :
        /\ (Done(r) /\ RejectedBySize(requests[r].upload)
              /\ requests[r].upload.fieldname = "audio"
              /\ ~RejectedByFilter(requests[r].upload))
              => (Status(r) = 400 /\ Body(r).error = "File too large")
        /\ (Active(r) /\ RejectedBySize(requests[r].upload))
              => (~requests[r].handlerReached /\ ~requests[r].providerCalled)

\* C4 witness: a 15 MiB audio upload has been answered 400 "File too large".
C4_Witness ==
    \E r \in Reqs :
        /\ Done(r)
        /\ requests[r].upload.part
        /\ requests[r].upload.size = 15 * 1024 * 1024
        /\ requests[r].upload.fieldname = "audio"
        /\ hasValidMime(requests[r].upload)
        /\ Status(r) = 400

\* C5 (as claimed): a request with no file in the 'audio' field is answered 400
\* "No audio file provided", with no file read and no provider call.
C5_NoAudioFileAnswered400 ==
    \A r \in Reqs :
        (Done(r) /\ (~requests[r].upload.part \/ requests[r].upload.fieldname # "audio"))
            => /\ Status(r) = 400
               /\ Body(r).error = "No audio file provided"
               /\ ~requests[r].fileRead
               /\ ~requests[r].providerCalled

\* Presence of alternatives[0] and of its fields in a provider result, level by
\* level.
HasAlternative(result) ==
    /\ result.results.present
    /\ result.results.value.channels.present
    /\ result.results.value.channels.value # <<>>
    /\ result.results.value.channels.value[1].alternatives.present
    /\ result.results.value.channels.value[1].alternatives.value # <<>>
TheAlternative(result) == result.results.value.channels.value[1].alternatives.value[1]
HasTranscript(result) == HasAlternative(result) /\ TheAlternative(result).transcript.present
HasConfidence(result) == HasAlternative(result) /\ TheAlternative(result).confidence.present
HasWords(result) == HasAlternative(result) /\ TheAlternative(result).words.present

\* C6: every provider result returned without an error object is answered 200
\* with success true, and a transcript, confidence or words list missing at any
\* level of nesting comes back as "", 0 and [] respectively.
C6_MissingFieldsDefaulted ==
    \A r \in Reqs :
        (Done(r) /\ requests[r].outcome.kind = "result")
            => /\ Status(r) = 200
               /\ Body(r).success = TRUE
               /\ ~HasTranscript(requests[r].outcome.result) => Body(r).transcript = <<>>
               /\ ~HasConfidence(requests[r].outcome.result) => Body(r).confidence = 0
               /\ ~HasWords(requests[r].outcome.result) => Body(r).words = <<>>

\* C6 witness: a result with no `results` object at all has been answered 200.
C6_Witness ==
    \E r \in Reqs :
        /\ Done(r) /\ requests[r].outcome.kind = "result"
        /\ ~requests[r].outcome.result.results.present
        /\ Status(r) = 200

\* The provider's word list (empty when the result has none).
ProviderWords(result) == IF HasWords(result) THEN TheAlternative(result).words.value ELSE <<>>

\* C7: in every success response, words is the first min(10, n) entries of the
\* provider's n-entry word list, in order, and never more than 10 entries.
C7_FirstTenWords ==
    \A r \in Reqs :
        (Done(r) /\ Status(r) = 200)
            => LET pw == ProviderWords(requests[r].outcome.result)
                   k == IF Len(pw) < 10 THEN Len(pw) ELSE 10
               IN  /\ Len(Body(r).words) = k
                   /\ \A i \in 1..k : Body(r).words[i] = pw[i]
                   /\ Len(Body(r).words) <= 10

\* C7 witness: a success response for a provider list of more than 10 words.
C7_Witness ==
    \E r \in Reqs :
        /\ Done(r) /\ Status(r) = 200
        /\ Len(ProviderWords(requests[r].outcome.result)) > 10
        /\ Len(Body(r).words) = 10

\* C8 (as claimed): in every success response word_count is the number of words
\* of the transcript returned in the same response.
C8_WordCountIsTranscriptWords ==
    \A r \in Reqs :
        (Done(r) /\ Status(r) = 200)
            => Body(r).word_count = NumWords(Body(r).transcript)

\* C9: when the provider call returns an error object the relay answers 500
\* with the provider's error message (the fixed "Unknown error occurred" when the
\* error object carries none), never a success body, and no result is normalized.
C9_ProviderErrorAnswered500 ==
    \A r \in Reqs :
        (Done(r) /\ requests[r].outcome.kind = "error")
            => /\ Status(r) = 500
               /\ "success" \notin DOMAIN Body(r)
               /\ ~requests[r].normalized
               /\ Body(r).message =
                     (IF requests[r].outcome.error.message # ""
                      THEN requests[r].outcome.error.message
                      ELSE "Unknown error occurred")

\* C9 witness: a provider error with a message has been answered with it.
C9_Witness ==
    \E r \in Reqs :
        /\ Done(r) /\ requests[r].outcome.kind = "error"
        /\ requests[r].outcome.error.message = "Rate limited"
        /\ Body(r).message = "Rate limited"

\* ------------------------------------------------------------ client, C10
\* The result area as clearTranscription must leave it.
ResultsCleared(a, d) ==
    /\ d.transcriptionResult = "placeholder"
    /\ d.transcriptionMeta = "none"
    /\ d.copyBtnDisabled /\ d.downloadBtnDisabled /\ d.clearBtnDisabled
    /\ a.currentTranscription.kind = "null"

\* C10: in whatever client state clearTranscription runs, right after it the
\* result panel shows the placeholder, the metadata section is hidden, the copy,
\* download and clear buttons are disabled and the stored result is empty.
C10_ClearResetsResults ==
    [][clearTranscription => ResultsCleared(app', dom')]_vars

\* C10 witness: clearTranscription has just run over a displayed result while a
\* later submission was in flight.
C10_Witness ==
    /\ dom.status = "Transcription cleared"
    /\ ResultsCleared(app, dom)
    /\ submitted > 1
    /\ inflight # {}

\* ------------------------------------------------------- client, C11..C20
\* The step issues a submission: transcribeAudio has been entered.
Issues == submitted' = submitted + 1

\* The step delivers the response to in-flight submission s.
Settles(s) == s \in inflight /\ s \notin inflight'

StoredResult(id) == [kind |-> "result", id |-> id]

\* C11 (as claimed): a step that issues a submission leaves no stored result.
C11_SubmissionDiscardsStoredResult ==
    [][Issues => app'.currentTranscription.kind # "result"]_vars

\* C11 (amended): the client stores one result; issuing a submission leaves the
\* stored result as it is, a submission that succeeds stores its own result in
\* place of the previous one, and otherwise the stored result changes only by
\* being emptied.
C11_StoredResultReplacedOnSuccess ==
    [][/\ Issues => app'.currentTranscription = app.currentTranscription
       /\ \A s \in inflight :
             (Settles(s) /\ dom'.status = "Transcription completed successfully!")
                 => app'.currentTranscription = StoredResult(s.id)
       /\ app'.currentTranscription # app.currentTranscription
             => \/ app'.currentTranscription.kind = "null"
                \/ \E s \in inflight :
                     Settles(s) /\ app'.currentTranscription = StoredResult(s.id)]_vars

\* C11 witness: the result of an earlier submission is still stored while a
\* later submission is in flight.
C11_Witness ==
    /\ app.currentTranscription.kind = "result"
    /\ \E s \in inflight : s.id > app.currentTranscription.id

\* The recorders that are capturing.
ActiveRecorders == {id \in RecorderIds : recorders[id] = "recording"}

\* C12 (as claimed): a start request made while capturing or while an earlier
\* one still waits for the microphone has no effect, so at most one recorder is
\* active at any time.
C12_AtMostOneRecorderActive ==
    Cardinality(ActiveRecorders) <= 1

\* C13 (as claimed): at most one submission is in flight at any time.
C13_AtMostOneInFlight ==
    Cardinality(inflight) <= 1

\* The submissions issued by the step.
Issued == inflight' \ inflight

\* C14: a stop taken while capturing leaves the stop event of the current
\* recorder pending and submits nothing itself; the stop event of a recorder is
\* delivered once, and its onstop issues exactly one submission, the blob of
\* the chunk buffer, empty or not; submissions of recorded audio are issued in
\* no other step, so a stop taken while not capturing leads to none.
C14_StopSubmitsOnce ==
    [][/\ stopRecording
            => /\ Issued = {}
               /\ IF app.mediaRecorder # Null /\ app.isRecording
                  THEN recorders'[app.mediaRecorder] = "stopping"
                  ELSE recorders' = recorders
       /\ \A id \in RecorderIds :
            /\ (recorders[id] = "stopping" /\ recorders'[id] = "inactive")
                 => \E s \in Issued :
                      /\ Issued = {s}
                      /\ inflight \subseteq inflight'
                      /\ s.caller = "onstop"
                      /\ s.audio = Blob(app.audioChunks, <<"audio/", "webm">>)
            /\ recorders[id] = "inactive" => recorders'[id] = "inactive"
            /\ recorders'[id] = "inactive" => recorders[id] \in {"stopping", "inactive"}
       /\ (\E s \in Issued : s.caller = "onstop")
            => \E id \in RecorderIds :
                 recorders[id] = "stopping" /\ recorders'[id] = "inactive"]_vars

\* C14 witness: after a stop taken while capturing, with no chunk buffered, the
\* empty blob of that recording is in flight.
C14_Witness ==
    /\ dom.status = "Recording stopped"
    /\ ~app.isRecording
    /\ app.mediaRecorder # Null
    /\ recorders[app.mediaRecorder] = "inactive"
    /\ \E s \in inflight : s.caller = "onstop" /\ s.audio.parts = <<>>

\* C15 (as claimed): a visualization loop whose capture has stopped takes no
\* further sample and asks for no further frame: the frame it still has
\* scheduled finds isRecording false and returns.
C15_LoopEndsWithItsCapture ==
    \A id \in RecorderIds :
        (loops[id] = "scheduled" /\ recorders[id] # "recording") => ~app.isRecording

\* C16 (as claimed): no submission comes from a picked or dropped file whose
\* declared type does not start with 'audio/'.
C16_NonAudioFileNotSubmitted ==
    \A s \in inflight :
        s.caller \in {"handleFileSelect", "handleFileDrop"}
            => StartsWith(s.audio.type, <<"audio/">>)

\* C17 (as claimed): whenever a microphone request is denied, at page load or
\* on a start, the client is idle, the denial is the status shown and the
\* record button is disabled.
C17_DenialDisablesRecording ==
    [][(PermissionDenied \/ StartDenied)
          => /\ ~app'.isRecording
             /\ dom'.status \in {"Microphone access denied. File upload is still available.",
                                 "Failed to start recording"}
             /\ dom'.recordBtnDisabled]_vars

\* The result area of the page.
ResultArea(d) ==
    <<d.transcriptionResult, d.transcriptionMeta, d.copyBtnDisabled, d.downloadBtnDisabled,
      d.clearBtnDisabled>>

\* C18: when a submission fails the error is the status shown, and the stored
\* result, the result panel, the metadata section and the copy, download and
\* clear buttons are as they were.
C18_FailureLeavesResultsUntouched ==
    [][(\E id \in SubmissionIds : SubmissionFails(id))
          => /\ dom'.status = "Transcription failed"
             /\ app'.currentTranscription = app.currentTranscription
             /\ ResultArea(dom') = ResultArea(dom)]_vars

\* C18 witness: a submission has just failed while the result of an earlier one
\* is stored and displayed.
C18_Witness ==
    /\ dom.status = "Transcription failed"
    /\ app.currentTranscription.kind = "result"
    /\ dom.transcriptionResult = "content"
    /\ ~dom.copyBtnDisabled /\ ~dom.downloadBtnDisabled /\ ~dom.clearBtnDisabled

\* C19: a step issues at most one submission, and only a step that delivers no
\* response does, so a failed submission is not sent again by its failure
\* path; on the relay a request calls the provider only when it has not called
\* it before, and the mark of its call stays until the request is over.
C19_NoRetry ==
    [][/\ Cardinality(Issued) <= 1
       /\ submitted' \in {submitted, submitted + 1}
       /\ Issued # {} <=> Issues
       /\ \A s \in Issued :
            /\ s.id = submitted + 1
            /\ s.caller \in {"onstop", "handleFileSelect", "handleFileDrop"}
            /\ inflight \subseteq inflight'
       /\ \A r \in Reqs :
            /\ (requests'[r].phase = "awaiting" /\ requests[r].phase # "awaiting")
                 => ~requests[r].providerCalled /\ requests'[r].providerCalled
            /\ (requests[r].providerCalled /\ requests'[r].phase # "none")
                 => requests'[r].providerCalled]_vars

\* C19 witness, client: a submission has failed and nothing is in flight after
\* it.
C19_Witness ==
    /\ dom.status = "Transcription failed"
    /\ submitted = 1
    /\ inflight = {}

\* C20 (as claimed): the processing indicator is visible exactly while a
\* submission is in flight.
C20_IndicatorTracksInFlight ==
    (inflight # {}) <=> (dom.processingIndicator = "block")

\* ------------------------------------------------------- client, C21, C22
\* The client is idle: nothing is being captured, no start waits for the
\* microphone, no stop event is pending and the recording UI is reset.
ClientIdle ==
    /\ ~app.isRecording
    /\ pendingStarts = 0
    /\ dom.stopBtnDisabled
    /\ \A id \in RecorderIds : recorders[id] # "stopping"

\* C21 (as claimed): every stream granted to a start is released once its
\* recording has been stopped, so no granted stream is live while the client
\* is idle.
C21_NoLiveStreamWhenIdle ==
    ClientIdle => \A id \in RecorderIds : streams[id] # "live"

\* Sequence a is the beginning of sequence b.
IsPrefix(a, b) == Len(a) <= Len(b) /\ \A i \in 1..Len(a) : a[i] = b[i]

\* Recorder id has been started and its stop event has not been handled.
Capturing(id) == recorders[id] \in {"recording", "stopping"}

\* C22 (as claimed): the buffer is empty when a recorder starts; while the
\* recorder's stop event has not been handled the buffer only grows, and only
\* by that recorder's chunks; the blob submitted by its onstop is the buffer.
\* So the blob is exactly that recording's non-empty chunks in delivery order.
C22_BlobIsOwnChunksInOrder ==
    [][\A id \in RecorderIds :
         /\ (recorders[id] = "none" /\ recorders'[id] = "recording")
              => app'.audioChunks = <<>>
         /\ Capturing(id)
              => /\ IsPrefix(app.audioChunks, app'.audioChunks)
                 /\ \A i \in (Len(app.audioChunks) + 1)..Len(app'.audioChunks) :
                      app'.audioChunks[i] = id
         /\ (recorders[id] = "stopping" /\ recorders'[id] = "inactive")
              => \A s \in Issued :
                   /\ s.audio.parts = app.audioChunks
                   /\ \A i \in 1..Len(s.audio.parts) : s.audio.parts[i] = id]_vars

\* ------------------------------------------------------------ relay, C23
\* Request r has an accepted upload whose temporary file multer opened and
\* whose handling is not over.
HoldsFile(r) ==
    /\ requests[r].phase \in {"writing", "handler", "awaiting"}
    /\ requests[r].path # NoFile

\* C23 (as claimed): two accepted uploads handled at the same time have
\* different temporary file names, and the file of an accepted upload that
\* its handler has not read yet is on disk, whatever another request cleans up.
C23_ConcurrentUploadsIsolated ==
    /\ \A r1, r2 \in Reqs :
         (r1 # r2 /\ HoldsFile(r1) /\ HoldsFile(r2))
             => requests[r1].path # requests[r2].path
    /\ \A r \in Reqs :
         (requests[r].phase = "handler" /\ requests[r].file)
             => requests[r].path \in disk

\* ------------------------------------------------------------ client, C24
\* C24: once a submission has succeeded or the results were cleared, the copy,
\* download and clear buttons are enabled exactly when a result is stored, and
\* the metadata section is visible exactly then.
C24_ButtonsTrackStoredResult ==
    app.currentTranscription.kind # "undefined"
        => LET present == app.currentTranscription.kind = "result" IN
             /\ ~dom.copyBtnDisabled <=> present
             /\ ~dom.downloadBtnDisabled <=> present
             /\ ~dom.clearBtnDisabled <=> present
             /\ (dom.transcriptionMeta = "block") <=> present

\* C24 witness: after a success, a clear and then a failed submission, no
\* result is stored and the buttons are disabled.
C24_Witness ==
    /\ dom.status = "Transcription failed"
    /\ app.currentTranscription.kind = "null"
    /\ submitted = 2
    /\ dom.copyBtnDisabled /\ dom.downloadBtnDisabled /\ dom.clearBtnDisabled
    /\ dom.transcriptionMeta = "none"
====
